---- MODULE Spec2Model ----
(***************************************************************************)
(* Model of reggie's GP model (reggie/models/gp.py) and of its MCMC        *)
(* meta-model (reggie/models/meta.py).                                     *)
(*                                                                         *)
(* The kernel, mean and likelihood objects and the linear algebra are      *)
(* external: their results are kept as terms that record which function    *)
(* was applied to which arguments, so two results are equal exactly when   *)
(* the same computation was applied to the same data.                      *)
(***************************************************************************)
EXTENDS Integers, Sequences, FiniteSets, TLC

\* ---------------------------------------------------------------- bounds
MaxData == 2
MaxBatch == 2
MaxParams == 2

XVals == {0, 1}
YVals == {0, 1}
Obs == [x : XVals, y : YVals]
QuerySets == {<<0>>, <<0, 1>>}
Inferences == {"exact", "fitc"}

\* ------------------------------------------------------ sequence helpers
SeqsUpTo(S, n) == UNION {[1..k -> S] : k \in 0..n}

Xs(data) == [i \in 1..Len(data) |-> data[i].x]
Ys(data) == [i \in 1..Len(data) |-> data[i].y]

\* ------------------------------------------------------------ GP: state
VARIABLES
    inference,   \* which gpinference strategy self._post is
    nparams,     \* self.params.size
    data,        \* self._X, self._Y: the accumulated observations
    post,        \* self._post: the strategy's statistics
    fmax,        \* self._fmax
    nbatch,      \* history: number of non-empty add_data calls so far
    op,          \* last operation called on the GP
    arg,         \* its arguments
    ret,         \* what it returned or raised
    reads        \* the attributes of self._post it read

gpvars == <<inference, nparams, data, post, fmax, nbatch, op, arg, ret, reads>>

\* ---------------------------------------------------------- MCMC: state
VARIABLES
    n,           \* self._n
    burn,        \* self._burn
    mc_ndata,    \* self._ndata
    models,      \* self._models: members [data, theta]
    template,    \* history: the observations of the template model
    added,       \* history: every batch added so far, concatenated in order
    burned,      \* history: whether the last _sample call burned in
    lastLen,     \* history: len(X) of the last add_data call
    burnAt,      \* history: mc_ndata at the most recent burn
    mop,         \* last operation called on the ensemble
    idx,         \* the index MCMC.sample drew
    mret         \* what MCMC.sample returned

mcvars == <<n, burn, mc_ndata, models, template, added, burned, lastLen, burnAt,
            mop, idx, mret>>

\* -------------------------------------------------- MCMC.predict: state
VARIABLES
    parts,       \* [_.predict(X, grad) for _ in self._models]
    pop,         \* "predict" once MCMC.predict has been called
    pgrad,       \* its grad argument
    pret         \* what it returned

prvars == <<parts, pop, pgrad, pret>>

\* ------------------------------------------------------- GP: operations
None == [stat |-> "None"]
Stat(name, kind, d) == [stat |-> name, inference |-> kind, X |-> Xs(d), Y |-> Ys(d)]

\* The inducing points handed to the sparse strategy's constructor.
Inducing == <<0, 1>>

\* gpinference strategy: init() resets to the empty-data state.
PostInit(kind) ==
    [L |-> None, a |-> None, w |-> None, C |-> None, lZ |-> None, dlZ |-> None,
     hasU |-> (kind = "fitc"), U |-> IF kind = "fitc" THEN Inducing ELSE <<>>]

\* gpinference strategy: update(X, Y) recomputes every statistic from (X, Y).
PostUpdate(kind, p, d) ==
    [p EXCEPT !.L = Stat("L", kind, d), !.a = Stat("a", kind, d),
              !.w = Stat("w", kind, d),
              !.C = IF kind = "fitc" THEN Stat("C", kind, d) ELSE None,
              !.lZ = Stat("lZ", kind, d), !.dlZ = Stat("dlZ", kind, d)]

ndata(g) == Len(g.data)

\* A predictive moment: the prior term and the corrections added to it.
Moment(prior, Xq, terms) == [prior |-> prior, X |-> Xq, terms |-> terms]
NoMoment == Moment("none", <<>>, <<>>)
Term(sign, f, target, stats) == [sign |-> sign, f |-> f, K |-> target, stats |-> stats]

\* gp.py 63-66, 91-94: the kernel-evaluation target, U for a strategy that has
\* inducing points and the observed inputs otherwise.
KernelTarget(g) ==
    IF g.post.hasU THEN [of |-> "U", pts |-> g.post.U]
    ELSE [of |-> "X", pts |-> Xs(g.data)]

\* Mutant: the posterior branch is taken without data too.
HasDataAlways(g) == ndata(g) >= 0

\* gp.py 62, 89: the posterior is computed only when there is data.
HasData(g) == ndata(g) > 0

\* gp.py 55-80: prior and posterior mean and (co)variance.
PredictMoments(g, Xq, joint) ==
    LET K == KernelTarget(g)
        mu0 == Moment("mean.get_function", Xq, <<>>)
        s20 == Moment(IF joint THEN "kern.get_kernel" ELSE "kern.get_dkernel", Xq, <<>>)
        V == Term(-1, IF joint THEN "dot(V.T,V)" ELSE "sum(V**2)", K, <<g.post.L, g.post.w>>)
        VC == Term(1, IF joint THEN "dot(VC.T,VC)" ELSE "sum(VC**2)", K, <<g.post.C>>)
    IN  IF HasData(g)
        THEN [mu |-> [mu0 EXCEPT !.terms = <<Term(1, "dot(K.T,a)", K, <<g.post.a>>)>>],
              s2 |-> [s20 EXCEPT !.terms = IF g.post.C # None THEN <<V, VC>> ELSE <<V>>],
              reads |-> {"w", "L", "a", "C"} \cup (IF g.post.hasU THEN {"U"} ELSE {})]
        ELSE [mu |-> mu0, s2 |-> s20, reads |-> {}]

\* gp.py 85-114: gradients of the moments with respect to the query points.
PredictGrads(g, Xq) ==
    LET dK == KernelTarget(g)
        dmu0 == Moment("mean.get_gradx", Xq, <<>>)
        ds20 == Moment("zeros_like", Xq, <<>>)
        dV == Term(-1, "2*sum(dV*V)", dK, <<g.post.L, g.post.w>>)
        dVC == Term(1, "2*sum(dVC*VC)", dK, <<g.post.C>>)
    IN  IF HasData(g)
        THEN [dmu |-> [dmu0 EXCEPT !.terms = <<Term(1, "dot(dK.T,a)", dK, <<g.post.a>>)>>],
              ds2 |-> [ds20 EXCEPT !.terms = IF g.post.C # None THEN <<dV, dVC>> ELSE <<dV>>],
              reads |-> {"a", "L", "C"} \cup (IF g.post.hasU THEN {"U"} ELSE {})]
        ELSE [dmu |-> dmu0, ds2 |-> ds20, reads |-> {}]

\* Mutant: the joint-with-gradient request is not rejected.
RejectsGradNever(joint, grad) == FALSE

\* gp.py 82: the combination of joint and grad that is rejected.
RejectsGrad(joint, grad) == grad /\ joint

\* gp.py 55-114: GP._predict.
GP_predict_(g, Xq, joint, grad) ==
    LET m == PredictMoments(g, Xq, joint)
        d == PredictGrads(g, Xq)
    IN  IF ~grad
        THEN [status |-> "ok", mu |-> m.mu, s2 |-> m.s2,
              dmu |-> NoMoment, ds2 |-> NoMoment, reads |-> m.reads]
        ELSE IF RejectsGrad(joint, grad)
        THEN [status |-> "ValueError", mu |-> NoMoment, s2 |-> NoMoment,
              dmu |-> NoMoment, ds2 |-> NoMoment, reads |-> m.reads]
        ELSE [status |-> "ok", mu |-> m.mu, s2 |-> m.s2,
              dmu |-> d.dmu, ds2 |-> d.ds2, reads |-> m.reads \cup d.reads]

\* gp.py 137-138: GP.predict.
GP_predict(g, Xq, grad) == GP_predict_(g, Xq, FALSE, grad)

\* mu.max()
MaxOf(mu) == [max |-> mu]

\* Mutant: a posterior that is already fitted is not refitted.
GP_updateKeepsFit(g) ==
    IF ndata(g) = 0
    THEN [g EXCEPT !.post = PostInit(g.inference), !.fmax = None]
    ELSE LET h == IF g.post.L = None
                  THEN [g EXCEPT !.post = PostUpdate(g.inference, g.post, g.data)]
                  ELSE g
         IN  [h EXCEPT !.fmax = MaxOf(GP_predict(h, Xs(h.data), FALSE).mu)]

\* Mutant: the incumbent is taken from the posterior as it was before the update.
GP_updateStaleFmax(g) ==
    IF ndata(g) = 0
    THEN [g EXCEPT !.post = PostInit(g.inference), !.fmax = None]
    ELSE LET h == [g EXCEPT !.post = PostUpdate(g.inference, g.post, g.data)]
         IN  [h EXCEPT !.fmax = MaxOf(GP_predict(g, Xs(g.data), FALSE).mu)]

\* gp.py 46-53: GP._update.
GP_update(g) ==
    IF ndata(g) = 0
    THEN [g EXCEPT !.post = PostInit(g.inference), !.fmax = None]
    ELSE LET h == [g EXCEPT !.post = PostUpdate(g.inference, g.post, g.data)]
         IN  [h EXCEPT !.fmax = MaxOf(GP_predict(h, Xs(h.data), FALSE).mu)]

\* _core.Model.add_data: append the batch to the observations, then _update().
Model_add_data(g, batch) == GP_update([g EXCEPT !.data = g.data \o batch])

\* gp.py 28-39: GP.__init__ (a new model has no data).
GP_init(kind) ==
    GP_update([inference |-> kind, data |-> <<>>, post |-> PostInit(kind), fmax |-> None])

\* 0.0 and np.zeros(k)
Zero == [const |-> "0.0"]
Zeros(k) == [zeros |-> k]

\* Mutant: the cached values are returned without the zero-data guard.
GP_get_loglikeNoGuard(g, np, grad) ==
    [status |-> "ok", val |-> g.post.lZ,
     grad |-> IF grad THEN g.post.dlZ ELSE None,
     reads |-> IF grad THEN {"lZ", "dlZ"} ELSE {"lZ"}]

\* gp.py 116-120: GP.get_loglike.
GP_get_loglike(g, np, grad) ==
    IF ndata(g) = 0
    THEN [status |-> "ok", val |-> Zero,
          grad |-> IF grad THEN Zeros(np) ELSE None, reads |-> {}]
    ELSE [status |-> "ok", val |-> g.post.lZ,
          grad |-> IF grad THEN g.post.dlZ ELSE None,
          reads |-> IF grad THEN {"lZ", "dlZ"} ELSE {"lZ"}]

\* gp.py 122-135: GP.sample: a draw through the factor of the joint covariance.
GP_sample(g, Xq, latent) ==
    LET p == GP_predict_(g, Xq, TRUE, FALSE)
    IN  [status |-> "ok", mu |-> p.mu, s2 |-> p.s2, latent |-> latent, reads |-> p.reads]

\* gp.py 140-175: GP.get_improvement: fmax + xi fails while fmax is None.
GP_get_improvement(g, Xq, grad, pi) ==
    LET p == GP_predict(g, Xq, grad)
    IN  IF g.fmax = None
        THEN [status |-> "TypeError", pi |-> pi, target |-> None, from |-> p, reads |-> p.reads]
        ELSE [status |-> "ok", pi |-> pi, target |-> g.fmax, from |-> p, reads |-> p.reads]

\* The GP object as a record.
gp == [inference |-> inference, data |-> data, post |-> post, fmax |-> fmax]

NoArg == [X |-> <<>>, joint |-> FALSE, grad |-> FALSE]

GPInit ==
    /\ inference \in Inferences
    /\ nparams \in 1..MaxParams
    /\ data = GP_init(inference).data
    /\ post = GP_init(inference).post
    /\ fmax = GP_init(inference).fmax
    /\ nbatch = 0
    /\ op = "init"
    /\ arg = NoArg
    /\ ret = [status |-> "ok"]
    /\ reads = {}

AddData ==
    \E batch \in SeqsUpTo(Obs, MaxBatch) :
        /\ Len(data) + Len(batch) <= MaxData
        /\ LET g == Model_add_data(gp, batch)
           IN  /\ data' = g.data
               /\ post' = g.post
               /\ fmax' = g.fmax
        /\ nbatch' = IF Len(batch) > 0 THEN nbatch + 1 ELSE nbatch
        /\ op' = "add_data"
        /\ arg' = NoArg
        /\ ret' = [status |-> "ok"]
        /\ reads' = {}
        /\ UNCHANGED <<inference, nparams, mcvars, prvars>>

\* What a call hands back, without the record of what it read.
Returned(r) == [f \in DOMAIN r \ {"reads"} |-> r[f]]

Predict ==
    \E Xq \in QuerySets, grad \in BOOLEAN :
        /\ op' = "predict"
        /\ arg' = [X |-> Xq, joint |-> FALSE, grad |-> grad]
        /\ ret' = Returned(GP_predict(gp, Xq, grad))
        /\ reads' = GP_predict(gp, Xq, grad).reads
        /\ UNCHANGED <<inference, nparams, data, post, fmax, nbatch, mcvars, prvars>>

PredictJoint ==
    \E Xq \in QuerySets, joint \in BOOLEAN, grad \in BOOLEAN :
        /\ op' = "_predict"
        /\ arg' = [X |-> Xq, joint |-> joint, grad |-> grad]
        /\ ret' = Returned(GP_predict_(gp, Xq, joint, grad))
        /\ reads' = GP_predict_(gp, Xq, joint, grad).reads
        /\ UNCHANGED <<inference, nparams, data, post, fmax, nbatch, mcvars, prvars>>

GetLoglike ==
    \E grad \in BOOLEAN :
        /\ op' = "get_loglike"
        /\ arg' = [X |-> <<>>, joint |-> FALSE, grad |-> grad]
        /\ ret' = Returned(GP_get_loglike(gp, nparams, grad))
        /\ reads' = GP_get_loglike(gp, nparams, grad).reads
        /\ UNCHANGED <<inference, nparams, data, post, fmax, nbatch, mcvars, prvars>>

Sample ==
    \E Xq \in QuerySets, latent \in BOOLEAN :
        /\ op' = "sample"
        /\ arg' = [X |-> Xq, joint |-> TRUE, grad |-> FALSE]
        /\ ret' = Returned(GP_sample(gp, Xq, latent))
        /\ reads' = GP_sample(gp, Xq, latent).reads
        /\ UNCHANGED <<inference, nparams, data, post, fmax, nbatch, mcvars, prvars>>

GetImprovement ==
    \E Xq \in QuerySets, grad \in BOOLEAN, pi \in BOOLEAN :
        /\ op' = "get_improvement"
        /\ arg' = [X |-> Xq, joint |-> FALSE, grad |-> grad]
        /\ ret' = Returned(GP_get_improvement(gp, Xq, grad, pi))
        /\ reads' = GP_get_improvement(gp, Xq, grad, pi).reads
        /\ UNCHANGED <<inference, nparams, data, post, fmax, nbatch, mcvars, prvars>>

GPNext == AddData \/ Predict \/ PredictJoint \/ GetLoglike \/ Sample \/ GetImprovement

\* No GP operation is in progress: a freshly constructed exact model.
GPIdle ==
    /\ inference = "exact"
    /\ nparams = 1
    /\ data = <<>>
    /\ post = PostInit("exact")
    /\ fmax = None
    /\ nbatch = 0
    /\ op = "init"
    /\ arg = NoArg
    /\ ret = [status |-> "ok"]
    /\ reads = {}

\* ----------------------------------------------------- MCMC: operations
MaxN == 2
MaxAdded == 3

Thetas == {0, 1}
\* The observations handed to the ensemble (their inputs tell them apart).
McObs == [x : XVals, y : {0}]
\* The burn-in lengths and the template's observations an ensemble is built with.
BurnSteps == {1, 2}
Templates == SeqsUpTo(McObs, 1)

\* learning.sample(model, k, False, rng): a chain of k copies of the model, each
\* with resampled hyperparameters and conditioned on the model's data.
Resample(model, k) ==
    {[i \in 1..k |-> [model EXCEPT !.theta = th[i]]] : th \in [1..k -> Thetas]}

\* meta.py 46-51: MCMC._sample.
MCMC_sample_(m, model, doBurn) ==
    IF doBurn
    THEN UNION {Resample(c[Len(c)], m.n) : c \in Resample(model, m.burn)}
    ELSE Resample(model, m.n)

\* Mutant: the factor 2 is missing from the re-burn test.
BurnTestNoFactor(nd, nprev) == nd > nprev

\* Mutant: the re-burn test is not strict.
BurnTestInclusive(nd, nprev) == nd >= 2 * nprev

\* meta.py 59: the amortised re-burn test.
BurnTest(nd, nprev) == nd > 2 * nprev

\* _core.Model.add_data on a member: append the batch to its observations.
Member_add_data(model, batch) == [model EXCEPT !.data = model.data \o batch]

\* Mutant: the updated member is put back and the ensemble is not regenerated.
MCMC_add_dataNoResample(m, batch) ==
    LET nprev == m.ndata
        model == Member_add_data(m.models[Len(m.models)], batch)
        nd == m.ndata + Len(batch)
    IN  {[m EXCEPT !.ndata = nd,
                   !.models = Append(SubSeq(m.models, 1, Len(m.models) - 1), model),
                   !.burned = BurnTest(nd, nprev)]}

\* meta.py 53-59: MCMC.add_data; the set of ensembles it can leave.
MCMC_add_data(m, batch) ==
    LET nprev == m.ndata
        model == Member_add_data(m.models[Len(m.models)], batch)
        nd == m.ndata + Len(batch)
        b == BurnTest(nd, nprev)
    IN  {[m EXCEPT !.ndata = nd, !.models = ms, !.burned = b] :
            ms \in MCMC_sample_(m, model, b)}

\* meta.py 36-41: MCMC.__init__.
MCMC_init(tmpl, nn, bb) ==
    LET m == [n |-> nn, burn |-> bb, ndata |-> 0, models |-> <<>>, burned |-> TRUE]
    IN  {[m EXCEPT !.models = ms] : ms \in MCMC_sample_(m, tmpl, TRUE)}

\* Mutant: the upper end of the index range is included.
RandintInclusive(k) == 0..k

\* meta.py 66: rng.randint(self._n).
Randint(k) == 0..(k - 1)

\* meta.py 64-67: MCMC.sample with the index i drawn (a Python list index).
MCMC_sample(m, i) ==
    IF i + 1 \in DOMAIN m.models
    THEN [status |-> "ok", sampleOf |-> <<m.models[i + 1]>>]
    ELSE [status |-> "IndexError", sampleOf |-> <<>>]

mcmc == [n |-> n, burn |-> burn, ndata |-> mc_ndata, models |-> models, burned |-> burned]

NoSample == [status |-> "none", sampleOf |-> <<>>]

MCInit ==
    /\ template \in Templates
    /\ \E nn \in 1..MaxN, bb \in BurnSteps, th \in Thetas :
          \E m \in MCMC_init([data |-> template, theta |-> th], nn, bb) :
              /\ n = m.n
              /\ burn = m.burn
              /\ mc_ndata = m.ndata
              /\ models = m.models
              /\ burned = m.burned
    /\ added = <<>>
    /\ lastLen = 0
    /\ burnAt = 0
    /\ mop = "init"
    /\ idx = 0
    /\ mret = NoSample

MCAddData ==
    \E batch \in SeqsUpTo(McObs, MaxBatch) :
        /\ Len(added) + Len(batch) <= MaxAdded
        /\ \E m \in MCMC_add_data(mcmc, batch) :
              /\ mc_ndata' = m.ndata
              /\ models' = m.models
              /\ burned' = m.burned
              /\ burnAt' = IF m.burned THEN m.ndata ELSE burnAt
        /\ added' = added \o batch
        /\ lastLen' = Len(batch)
        /\ mop' = "add_data"
        /\ UNCHANGED <<n, burn, template, idx, mret, gpvars, prvars>>

MCSample ==
    \E i \in Randint(n) :
        /\ idx' = i
        /\ mret' = MCMC_sample(mcmc, i)
        /\ mop' = "sample"
        /\ UNCHANGED <<n, burn, mc_ndata, models, template, added, burned, lastLen, burnAt,
                       gpvars, prvars>>

\* No ensemble has been constructed.
MCIdle ==
    /\ n = 0
    /\ burn = 0
    /\ mc_ndata = 0
    /\ models = <<>>
    /\ template = <<>>
    /\ added = <<>>
    /\ burned = FALSE
    /\ lastLen = 0
    /\ burnAt = 0
    /\ mop = "none"
    /\ idx = 0
    /\ mret = NoSample

\* ------------------------------------------------------- MCMC.predict
MaxMembers == 2

MuVals == {-1, 0, 2}
S2Vals == {0, 2}
GradVals == {0, 1}
\* What one member's predict(X, grad) returns at the query point.
MemberMoments == [mu : MuVals, s2 : S2Vals, dmu : GradVals, ds2 : GradVals]

\* Exact fractions num/den, den > 0, in lowest terms.
Abs(i) == IF i < 0 THEN -i ELSE i

RECURSIVE GCD(_, _)
GCD(a, b) == IF b = 0 THEN a ELSE GCD(b, a % b)

Frac(nu, de) ==
    LET g == GCD(Abs(nu), de)
    IN  [num |-> nu \div g, den |-> de \div g]

FInt(i) == Frac(i, 1)
FAdd(p, q) == Frac(p.num * q.den + q.num * p.den, p.den * q.den)
FSub(p, q) == Frac(p.num * q.den - q.num * p.den, p.den * q.den)
FMul(p, q) == Frac(p.num * q.num, p.den * q.den)

RECURSIVE FSum(_)
FSum(fs) == IF fs = <<>> THEN FInt(0) ELSE FAdd(fs[1], FSum(Tail(fs)))

\* np.mean(_, axis=0) over the members.
FMean(fs) == LET t == FSum(fs) IN Frac(t.num, t.den * Len(fs))

NoFrac == [num |-> 0, den |-> 0]

\* Mutant: the spread of the members' means is left out of the variance.
VarianceTermNoDeviation(s2i, mui, mu) == FInt(s2i)

\* meta.py 75: one member's term of the ensemble variance.
VarianceTerm(s2i, mui, mu) ==
    FAdd(FInt(s2i), FMul(FSub(FInt(mui), mu), FSub(FInt(mui), mu)))

\* meta.py 69-87: MCMC.predict.
MCMC_predict(ps, grad) ==
    LET I == 1..Len(ps)
        mu == FMean([i \in I |-> FInt(ps[i].mu)])
        s2 == FMean([i \in I |-> VarianceTerm(ps[i].s2, ps[i].mu, mu)])
        dmu == FMean([i \in I |-> FInt(ps[i].dmu)])
        Dmu == [i \in I |-> FSub(FInt(ps[i].dmu), dmu)]
        ds2 == FMean([i \in I |->
                   FSub(FAdd(FInt(ps[i].ds2), FMul(FInt(2 * ps[i].mu), Dmu[i])),
                        FMul(FMul(FInt(2), mu), Dmu[i]))])
    IN  IF ~grad
        THEN [mu |-> mu, s2 |-> s2, dmu |-> NoFrac, ds2 |-> NoFrac]
        ELSE [mu |-> mu, s2 |-> s2, dmu |-> dmu, ds2 |-> ds2]

NoPrediction == [mu |-> NoFrac, s2 |-> NoFrac, dmu |-> NoFrac, ds2 |-> NoFrac]

PredictInit ==
    /\ parts \in UNION {[1..k -> MemberMoments] : k \in 1..MaxMembers}
    /\ pop = "none"
    /\ pgrad = FALSE
    /\ pret = NoPrediction

MCPredict ==
    \E grad \in BOOLEAN :
        /\ pop' = "predict"
        /\ pgrad' = grad
        /\ pret' = MCMC_predict(parts, grad)
        /\ UNCHANGED <<parts, gpvars, mcvars>>

\* MCMC.predict has not been called.
PredictIdle ==
    /\ parts = <<>>
    /\ pop = "none"
    /\ pgrad = FALSE
    /\ pret = NoPrediction

vars == <<gpvars, mcvars, prvars>>

\* A GP model and the calls made on it.
InitGP == GPInit /\ MCIdle /\ PredictIdle
SpecGP == InitGP /\ [][GPNext]_vars

\* An ensemble and the calls made on it.
InitMCMC == MCInit /\ GPIdle /\ PredictIdle
MCNext == MCAddData \/ MCSample
SpecMCMC == InitMCMC /\ [][MCNext]_vars

\* MCMC.predict applied to the members' predictions.
InitPredict == PredictInit /\ GPIdle /\ MCIdle
PredictNext == MCPredict
SpecPredict == InitPredict /\ [][PredictNext]_vars

\* ------------------------------------------------------------- theorems

\* C1: an add_data call re-burns only if the accumulated count after the call
\* is more than twice the accumulated count at the most recent previous burn
\* (construction is a burn at count 0).
ReburnOnlyIfDoubled ==
    [][(mop' = "add_data" /\ burned') => mc_ndata' > 2 * burnAt]_vars

\* A re-burn by a call that found data already accumulated.
ReburnWitness ==
    mop = "add_data" /\ burned /\ lastLen > 0 /\ mc_ndata > lastLen

\* C2: after any sequence of add_data calls every one of the n members holds
\* the same observations: the template's, followed by every batch added so
\* far, in the order the batches were added.
MembersShareAllData ==
    \A i \in DOMAIN models : models[i].data = template \o added

\* Two batches have been added to an ensemble whose members differ in their
\* hyperparameters.
MembersShareWitness ==
    /\ mop = "add_data" /\ lastLen > 0 /\ Len(added) > lastLen
    /\ n >= 2 /\ models[1].theta # models[2].theta
    /\ added[1] # added[Len(added)]

RECURSIVE SumInts(_)
SumInts(xs) == IF xs = <<>> THEN 0 ELSE xs[1] + SumInts(Tail(xs))

\* C3: the ensemble mean is the arithmetic mean of the members' means, the
\* ensemble variance is the arithmetic mean of (member variance + squared
\* difference between member mean and ensemble mean), and it is non-negative
\* when every member variance is. With N members and S the sum of their means:
\* N * mu = S and N^3 * s2 = N^2 * sum(s2_i) + sum((N * mu_i - S)^2).
TotalVariance ==
    pop = "predict" =>
        LET N == Len(parts)
            S == SumInts([i \in 1..N |-> parts[i].mu])
            V == SumInts([i \in 1..N |-> parts[i].s2])
            D == SumInts([i \in 1..N |-> (N * parts[i].mu - S) * (N * parts[i].mu - S)])
        IN  /\ pret.mu.den > 0 /\ pret.s2.den > 0
            /\ pret.mu.num * N = pret.mu.den * S
            /\ pret.s2.num * N * N * N = pret.s2.den * (N * N * V + D)
            /\ (\A i \in 1..N : parts[i].s2 >= 0) => pret.s2.num >= 0

\* A prediction over members whose means differ.
TotalVarianceWitness ==
    pop = "predict" /\ Len(parts) >= 2 /\ parts[1].mu # parts[2].mu /\ parts[1].s2 > 0

\* C4: get_loglike on a model without observations returns 0.0, with grad a
\* zero gradient of length params.size, and reads neither lZ nor dlZ; with
\* observations it returns the strategy's lZ (and dlZ) for those observations.
LoglikeOfEmptyIsZero ==
    op = "get_loglike" =>
        /\ ret.status = "ok"
        /\ IF Len(data) = 0
           THEN /\ ret.val = Zero
                /\ ret.grad = (IF arg.grad THEN Zeros(nparams) ELSE None)
                /\ reads \cap {"lZ", "dlZ"} = {}
           ELSE /\ ret.val = post.lZ
                /\ ret.val = Stat("lZ", inference, data)
                /\ ret.grad = (IF arg.grad THEN post.dlZ ELSE None)

\* The log-likelihood and its gradient asked of a model without observations.
LoglikeWitness ==
    op = "get_loglike" /\ Len(data) = 0 /\ arg.grad /\ nparams > 1

\* C5: _predict fails with ValueError, returning no moments, exactly when
\* joint and grad are both requested, with or without data; predict and sample
\* never request both and return normally.
JointGradRejected ==
    /\ op = "_predict" =>
          /\ (ret.status = "ValueError") <=> (arg.joint /\ arg.grad)
          /\ (ret.status = "ok") <=> ~(arg.joint /\ arg.grad)
          /\ (ret.status = "ValueError") =>
                ret.mu = NoMoment /\ ret.s2 = NoMoment /\ ret.dmu = NoMoment /\ ret.ds2 = NoMoment
          /\ (ret.status = "ok") => ret.mu # NoMoment /\ ret.s2 # NoMoment
          /\ (ret.status = "ok" /\ arg.grad) => ret.dmu # NoMoment /\ ret.ds2 # NoMoment
    /\ op \in {"predict", "sample"} => ret.status = "ok"

\* Gradients of a joint prediction asked of a model with data.
JointGradWitness ==
    op = "_predict" /\ arg.joint /\ arg.grad /\ Len(data) > 0 /\ ret.status = "ValueError"

\* The model that got all of the observations d in one add_data call.
OneBatch(kind, d) == Model_add_data(GP_init(kind), d)

\* C6: however the observations were split into batches, the strategy's
\* statistics and fmax are those of the model that got them in one batch, and
\* so are the moments predict returns.
BatchingIrrelevant ==
    LET one == OneBatch(inference, data)
    IN  /\ post = one.post
        /\ fmax = one.fmax
        /\ op = "predict" =>
              /\ ret = Returned(GP_predict(one, arg.X, arg.grad))
              /\ ret.mu = Moment("mean.get_function", arg.X,
                     IF Len(data) = 0 THEN <<>>
                     ELSE <<Term(1, "dot(K.T,a)", KernelTarget(one), <<Stat("a", inference, data)>>)>>)

\* A prediction by a model that got its observations in two batches or more.
BatchingWitness ==
    op = "predict" /\ nbatch >= 2 /\ arg.grad

\* The posterior mean at the inputs Xq of a model of this kind fitted to d.
PosteriorMean(kind, d, Xq) ==
    Moment("mean.get_function", Xq,
           <<Term(1, "dot(K.T,a)",
                  IF kind = "fitc" THEN [of |-> "U", pts |-> Inducing]
                  ELSE [of |-> "X", pts |-> Xs(d)],
                  <<Stat("a", kind, d)>>)>>)

\* C7: fmax is None exactly when there are no observations, and otherwise the
\* maximum of the posterior mean, of the strategy as updated with all current
\* observations, over all currently observed inputs.
FmaxIsCurrent ==
    /\ (fmax = None) <=> (Len(data) = 0)
    /\ Len(data) > 0 =>
          /\ post.a = Stat("a", inference, data)
          /\ fmax = MaxOf(PosteriorMean(inference, data, Xs(data)))

\* A second batch has been added to a model that had an incumbent.
FmaxWitness ==
    op = "add_data" /\ nbatch >= 2 /\ fmax # None

\* C8: the ensemble always holds exactly n members; sample draws a valid index,
\* returns the sample of that one member, and can draw every member.
SampleDelegatesToOneMember ==
    /\ n >= 1 /\ Len(models) = n
    /\ \A i \in 0..(n - 1) : ENABLED (MCSample /\ idx' = i)
    /\ mop = "sample" =>
          /\ idx \in 0..(Len(models) - 1)
          /\ mret.status = "ok"
          /\ mret.sampleOf = <<models[idx + 1]>>

\* The last member drawn from an ensemble that has been given data.
SampleWitness ==
    mop = "sample" /\ n >= 2 /\ idx = n - 1 /\ Len(added) > 0

\* C9: add_data re-burns exactly when the count after the call is more than
\* twice the count before it; the count starts at 0 whatever the template
\* holds; so the first non-empty batch re-burns, an empty batch does not, and
\* a batch no larger than the count before it does not.
ReburnExactlyWhenDoubled ==
    /\ mc_ndata = Len(added)
    /\ mop = "add_data" =>
          LET before == Len(added) - lastLen
          IN  /\ burned <=> (Len(added) > 2 * before)
              /\ (before = 0 /\ lastLen > 0) => burned
              /\ lastLen = 0 => ~burned
              /\ lastLen <= before => ~burned

\* The first batch given to an ensemble whose template had data re-burns.
ReburnFirstBatchWitness ==
    mop = "add_data" /\ burned /\ Len(template) > 0 /\ lastLen = Len(added) /\ lastLen > 0

\* C10: predict on a model without observations returns the prior: the mean
\* function's value, the kernel's prior variance, with grad the mean
\* function's input gradient and a zero variance gradient; the strategy is in
\* its empty state and none of its attributes is read.
PriorWithoutData ==
    (op = "predict" /\ Len(data) = 0) =>
        /\ post = PostInit(inference)
        /\ ret.status = "ok"
        /\ ret.mu = Moment("mean.get_function", arg.X, <<>>)
        /\ ret.s2 = Moment("kern.get_dkernel", arg.X, <<>>)
        /\ arg.grad => /\ ret.dmu = Moment("mean.get_gradx", arg.X, <<>>)
                       /\ ret.ds2 = Moment("zeros_like", arg.X, <<>>)
        /\ reads = {}

\* A prediction with gradients by a sparse model without observations.
PriorWitness ==
    op = "predict" /\ Len(data) = 0 /\ arg.grad /\ inference = "fitc"
====
